---- MODULE Spec2Model ----
(***************************************************************************)
(* Model of the Dagger pipeline module MyNestApp (.dagger/src/index.ts).   *)
(* One behaviour is one invocation of an entry point (test, build, deploy, *)
(* deployToServer).  Every external command the pipeline executes is one   *)
(* action whose exit status is chosen by the environment.  Strings that    *)
(* the code interpolates or converts are sequences of one-character        *)
(* strings, so that toLowerCase and number formatting are computed.        *)
(***************************************************************************)
EXTENDS Integers, Sequences, FiniteSets, TLC

\* ------------------------------------------------------------------ bounds
MaxNameLen == 2

\* ------------------------------------------------------------ input domains
\* sshPort omitted (undefined); every supplied port is a positive number
None == -1
Alphabet == {"A", "a", "B"}
Names == UNION {[1..n -> Alphabet] : n \in 1..MaxNameLen}
Registries == {<<"r">>, <<"G">>}
Hosts == {<<"h">>}
Users == {<<"u">>}
Passwords == {<<"p">>}
Ports == {None, 22, 2200}
Entries == {"test", "build", "deploy", "deployToServer"}
HostKeys == {"k1", "k2"}

\* --------------------------------------------------------- string functions
LowerChar(c) ==
  CASE c = "A" -> "a"
    [] c = "B" -> "b"
    [] OTHER -> c

ToLowerCase(s) == [i \in 1..Len(s) |-> LowerChar(s[i])]

Digit(d) ==
  CASE d = 0 -> "0" [] d = 1 -> "1" [] d = 2 -> "2" [] d = 3 -> "3"
    [] d = 4 -> "4" [] d = 5 -> "5" [] d = 6 -> "6" [] d = 7 -> "7"
    [] d = 8 -> "8" [] d = 9 -> "9"

RECURSIVE NumToString(_)
NumToString(n) ==
  IF n < 10 THEN <<Digit(n)>> ELSE NumToString(n \div 10) \o <<Digit(n % 10)>>

AppTag ==
  <<"/", "m", "y", "-", "n", "e", "s", "t", "-", "a", "p", "p",
    ":", "l", "a", "t", "e", "s", "t">>

\* variant: another default port
DefaultPortOther(p) == IF p = None THEN 2200 ELSE p

\* line 35: const port = sshPort ?? 22
DefaultPort(p) == IF p = None THEN 22 ELSE p

\* variant: the username is interpolated as supplied
ServerImageNameRaw(reg, user) == reg \o <<"/">> \o user \o AppTag

\* line 36: `${registryAddr}/${username.toLowerCase()}/my-nest-app:latest`
ServerImageName(reg, user) == reg \o <<"/">> \o ToLowerCase(user) \o AppTag

\* variant: the username is interpolated as supplied
DeployImageNameRaw(user) == user \o AppTag

\* line 113: `${username.toLowerCase()}/my-nest-app:latest`
DeployImageName(user) == ToLowerCase(user) \o AppTag

\* line 117: `${registryAddr}/${imageName}`
PublishAddress(reg, user) == reg \o <<"/">> \o DeployImageName(user)

\* variant: the old container is removed without being stopped first
DeployScriptNoStop(pw, reg, user, img) ==
  << [op |-> "login", stdin |-> pw, registry |-> reg, user |-> user, tolerant |-> FALSE],
     [op |-> "pull", image |-> img, tolerant |-> FALSE],
     [op |-> "rm", name |-> "nest-app", tolerant |-> TRUE],
     [op |-> "run", name |-> "nest-app", restart |-> "unless-stopped",
      publish |-> 3000, image |-> img, tolerant |-> FALSE],
     [op |-> "prune", tolerant |-> FALSE] >>

\* lines 38-45: the remote script, one record per line; tolerant = "|| true"
DeployScript(pw, reg, user, img) ==
  << [op |-> "login", stdin |-> pw, registry |-> reg, user |-> user, tolerant |-> FALSE],
     [op |-> "pull", image |-> img, tolerant |-> FALSE],
     [op |-> "stop", name |-> "nest-app", tolerant |-> TRUE],
     [op |-> "rm", name |-> "nest-app", tolerant |-> TRUE],
     [op |-> "run", name |-> "nest-app", restart |-> "unless-stopped",
      publish |-> 3000, image |-> img, tolerant |-> FALSE],
     [op |-> "prune", tolerant |-> FALSE] >>

\* line 66: the option the ssh client is started with
StrictHostKeyChecking == "no"

\* ssh client: does the connection proceed for the key the peer presents
HostKeyAccepted(strict, known, key) ==
  IF strict = "no" THEN TRUE ELSE key \in known

\* variant: the "|| true" is missing
OrTrueMissing(ok) == ok

\* a shell list "cmd || true" exits zero whatever cmd did
OrTrue(ok) == TRUE

\* line 76: `Deployed ${imageRef} to ${sshHost}`
Confirmation(ref, host) == [text |-> "Deployed", ref |-> ref, host |-> host]

Error == [text |-> "error"]
Pending == [text |-> "pending"]

VARIABLES args, pc, log, result, imageRef, port, imageName, deployScript,
          knownHosts, peerKey, sent, containers, localImage, status, prior

vars == <<args, pc, log, result, imageRef, port, imageName, deployScript,
          knownHosts, peerKey, sent, containers, localImage, status, prior>>

\* remote host before the run: the container nest-app and the local image tag
PriorHosts ==
  { [containers |-> {}, localImage |-> "none"],
    [containers |-> {}, localImage |-> "old"],
    [containers |-> {[name |-> "nest-app", state |-> "stopped", image |-> "old",
                      publish |-> 3000, restart |-> "unless-stopped"]},
     localImage |-> "old"],
    [containers |-> {[name |-> "nest-app", state |-> "running", image |-> "old",
                      publish |-> 3000, restart |-> "unless-stopped"]},
     localImage |-> "old"] }

Init ==
  /\ args \in [entry : Entries, registryAddr : Registries, username : Names,
               password : Passwords, sshHost : Hosts, sshUser : Users,
               sshPort : Ports]
  /\ pc = IF args.entry = "build" THEN "build_base" ELSE "test_base"
  /\ log = <<>>
  /\ result = Pending
  /\ imageRef = <<>>
  /\ port = 0
  /\ imageName = <<>>
  /\ deployScript = <<>>
  /\ knownHosts = {}
  /\ peerKey = "none"
  /\ sent = <<>>
  /\ prior \in PriorHosts
  /\ containers = prior.containers
  /\ localImage = prior.localImage
  /\ status = <<>>

pipeVars == <<imageRef, port, imageName, deployScript>>
sshVars == <<knownHosts, peerKey, sent>>
hostVars == <<containers, localImage, status>>

\* variant: the rejection is swallowed and the pipeline goes on
ExecSwallow(cur, nxt, rec) ==
  /\ pc = cur
  /\ \E ok \in BOOLEAN :
       /\ log' = Append(log, [step |-> rec, ok |-> ok])
       /\ pc' = nxt /\ result' = result
  /\ UNCHANGED <<args, prior>>

\* one withExec / platform call: the environment picks the exit status, a
\* non-zero exit rejects the awaited promise and ends the invocation
Exec(cur, nxt, rec) ==
  /\ pc = cur
  /\ \E ok \in BOOLEAN :
       /\ log' = Append(log, [step |-> rec, ok |-> ok])
       /\ IF ok THEN pc' = nxt /\ result' = result
                ELSE pc' = "done" /\ result' = Error
  /\ UNCHANGED <<args, prior>>

\* ------------------------------------------------------------- base (136-152)
Base ==
  \E stage \in {"test", "build"} :
    /\ Exec(stage \o "_base", stage \o "_install",
            [cmd |-> "corepack enable", image |-> "node:24-slim", stage |-> stage])
    /\ UNCHANGED <<pipeVars, sshVars, hostVars>>

\* ------------------------------------------------------------- test (121-126)
TestInstall ==
  /\ Exec("test_install", "test_run", [cmd |-> "pnpm install", stage |-> "test"])
  /\ UNCHANGED <<pipeVars, sshVars, hostVars>>

\* variant: the test run is not awaited, the build starts whatever it did
TestRunNoAwait ==
  /\ pc = "test_run"
  /\ \E ok \in BOOLEAN :
       log' = Append(log, [step |-> [cmd |-> "pnpm run test", stage |-> "test"],
                           ok |-> ok])
  /\ pc' = IF args.entry = "test" THEN "return" ELSE "build_base"
  /\ UNCHANGED <<args, prior, result, pipeVars, sshVars, hostVars>>

TestRun ==
  /\ Exec("test_run", IF args.entry = "test" THEN "return" ELSE "build_base",
          [cmd |-> "pnpm run test", stage |-> "test"])
  /\ UNCHANGED <<pipeVars, sshVars, hostVars>>

\* ------------------------------------------- build (129-134) / deploy (93-98)
BuildInstallCmd(entry) ==
  IF entry = "build" THEN "pnpm install" ELSE "pnpm install --prod=false"

BuildInstall ==
  /\ Exec("build_install", "build_run",
          [cmd |-> BuildInstallCmd(args.entry), stage |-> "build"])
  /\ UNCHANGED <<pipeVars, sshVars, hostVars>>

BuildRun ==
  /\ Exec("build_run", IF args.entry = "build" THEN "return" ELSE "package",
          [cmd |-> "pnpm run build", stage |-> "build"])
  /\ UNCHANGED <<pipeVars, sshVars, hostVars>>

\* --------------------------------------------------------- deploy (100-118)
Package ==
  /\ Exec("package", "publish",
          [cmd |-> "from", image |-> "node:24-alpine", stage |-> "package"])
  /\ UNCHANGED <<pipeVars, sshVars, hostVars>>

\* variant: a rejected publish does not stop deployToServer
PublishNoAbort ==
  /\ pc = "publish"
  /\ \E ok \in BOOLEAN :
       LET addr == PublishAddress(args.registryAddr, args.username)
           rec == [cmd |-> "publish", stage |-> "publish", address |-> addr,
                   authAddr |-> args.registryAddr, authUser |-> args.username]
       IN /\ log' = Append(log, [step |-> rec, ok |-> ok])
          /\ IF args.entry = "deploy"
             THEN /\ pc' = "done"
                  /\ result' = IF ok THEN [text |-> "ref", ref |-> addr] ELSE Error
                  /\ imageRef' = imageRef
             ELSE /\ pc' = "compose" /\ result' = result
                  /\ imageRef' = addr
  /\ UNCHANGED <<args, prior, port, imageName, deployScript, sshVars, hostVars>>

Publish ==
  /\ pc = "publish"
  /\ \E ok \in BOOLEAN :
       LET addr == PublishAddress(args.registryAddr, args.username)
           rec == [cmd |-> "publish", stage |-> "publish", address |-> addr,
                   authAddr |-> args.registryAddr, authUser |-> args.username]
       IN /\ log' = Append(log, [step |-> rec, ok |-> ok])
          /\ IF ~ok THEN /\ pc' = "done" /\ result' = Error
                         /\ imageRef' = imageRef
             ELSE IF args.entry = "deploy"
                  THEN /\ pc' = "done" /\ result' = [text |-> "ref", ref |-> addr]
                       /\ imageRef' = imageRef
                  ELSE /\ pc' = "compose" /\ result' = result
                       /\ imageRef' = addr
  /\ UNCHANGED <<args, prior, port, imageName, deployScript, sshVars, hostVars>>

\* test / build hand their value back to the platform
Return ==
  /\ pc = "return"
  /\ pc' = "done"
  /\ result' = IF args.entry = "test" THEN [text |-> "stdout"] ELSE [text |-> "dist"]
  /\ UNCHANGED <<args, prior, log, pipeVars, sshVars, hostVars>>

\* -------------------------------------------------- deployToServer (34-45)
Compose ==
  /\ pc = "compose"
  /\ \E ok \in BOOLEAN :
       /\ log' = Append(log, [step |-> [cmd |-> "plaintext", stage |-> "remote"],
                              ok |-> ok])
       /\ IF ok
          THEN LET img == ServerImageName(args.registryAddr, args.username)
               IN /\ port' = DefaultPort(args.sshPort)
                  /\ imageName' = img
                  /\ deployScript' = DeployScript(args.password, args.registryAddr,
                                                  args.username, img)
                  /\ pc' = "util_from" /\ result' = result
          ELSE /\ port' = DefaultPort(args.sshPort)
               /\ imageName' = ServerImageName(args.registryAddr, args.username)
               /\ deployScript' = deployScript
               /\ pc' = "done" /\ result' = Error
  /\ UNCHANGED <<args, prior, imageRef, sshVars, hostVars>>

\* -------------------------------------------------- deployToServer (47-57)
UtilSetup ==
  \/ /\ Exec("util_from", "util_apk",
             [cmd |-> "from", image |-> "alpine:latest", stage |-> "remote"])
     /\ UNCHANGED <<pipeVars, sshVars, hostVars>>
  \/ /\ Exec("util_apk", "util_mkdir",
             [cmd |-> "apk add --no-cache openssh-client", stage |-> "remote"])
     /\ UNCHANGED <<pipeVars, sshVars, hostVars>>
  \/ /\ Exec("util_mkdir", "util_key",
             [cmd |-> "mkdir -p /root/.ssh", stage |-> "remote"])
     /\ UNCHANGED <<pipeVars, sshVars, hostVars>>
  \/ /\ Exec("util_key", "keyscan",
             [cmd |-> "cp /tmp/ssh_key /root/.ssh/id_rsa && chmod 600 /root/.ssh/id_rsa",
              stage |-> "remote"])
     /\ UNCHANGED <<pipeVars, sshVars, hostVars>>

\* -------------------------------------------------- deployToServer (58-62)
\* ssh-keyscan -p ${port} ${sshHost} > /root/.ssh/known_hosts 2>/dev/null || true
KeyScan ==
  /\ pc = "keyscan"
  /\ \E scanOk \in BOOLEAN, key \in HostKeys :
       /\ knownHosts' = IF scanOk THEN {key} ELSE {}
       /\ log' = Append(log, [step |-> [cmd |-> "ssh-keyscan", stage |-> "remote",
                                        port |-> NumToString(port),
                                        host |-> args.sshHost,
                                        scanned |-> scanOk],
                              ok |-> OrTrue(scanOk)])
       /\ IF OrTrue(scanOk) THEN pc' = "ssh" /\ result' = result
                            ELSE pc' = "done" /\ result' = Error
  /\ UNCHANGED <<args, prior, pipeVars, peerKey, sent, hostVars>>

\* -------------------------------------------------- deployToServer (63-74)
SshStep(exit) ==
  [step |-> [cmd |-> "ssh", stage |-> "remote", strict |-> StrictHostKeyChecking,
             identity |-> "/root/.ssh/id_rsa", port |-> NumToString(port),
             target |-> args.sshUser \o <<"@">> \o args.sshHost,
             script |-> deployScript],
   ok |-> exit]

SshConnect ==
  /\ pc = "ssh"
  /\ \E reach \in BOOLEAN, key \in HostKeys :
       IF reach /\ HostKeyAccepted(StrictHostKeyChecking, knownHosts, key)
       THEN /\ peerKey' = key
            /\ sent' = deployScript
            /\ pc' = "remote"
            /\ UNCHANGED <<log, result>>
       ELSE /\ log' = Append(log, SshStep(FALSE))
            /\ pc' = "done" /\ result' = Error
            /\ UNCHANGED <<peerKey, sent>>
  /\ UNCHANGED <<args, prior, pipeVars, knownHosts, hostVars>>

\* ----------------------------------------------- remote shell (script 38-45)
\* the script is run by "sh -c" without -e: a failing line does not end it
ErrExit == FALSE

Line == sent[Len(status) + 1]

LineStatus(line, ok) == IF line.tolerant THEN OrTrue(ok) ELSE ok

Named(n) == {c \in containers : c.name = n}

\* the shell records the line's exit status and goes on to the next line
Advance(ok) ==
  LET s == LineStatus(Line, ok)
  IN /\ status' = Append(status, s)
     /\ pc' = IF (ErrExit /\ ~s) \/ Len(status) + 1 = Len(sent)
              THEN "ssh_exit" ELSE "remote"
     /\ UNCHANGED <<args, prior, log, result, pipeVars, sshVars>>

RemoteLogin ==
  /\ pc = "remote" /\ Line.op = "login"
  /\ \E ok \in BOOLEAN : Advance(ok)
  /\ UNCHANGED <<containers, localImage>>

RemotePull ==
  /\ pc = "remote" /\ Line.op = "pull"
  /\ \E ok \in BOOLEAN :
       /\ Advance(ok)
       /\ localImage' = IF ok THEN "new" ELSE localImage
  /\ UNCHANGED containers

\* docker stop: fails when no such container, leaves a stopped one stopped
RemoteStop ==
  /\ pc = "remote" /\ Line.op = "stop"
  /\ Advance(Named(Line.name) # {})
  /\ containers' = {IF c.name = Line.name THEN [c EXCEPT !.state = "stopped"] ELSE c
                      : c \in containers}
  /\ UNCHANGED localImage

\* docker rm (no -f): fails when no such container or when it is running
RemoteRm ==
  /\ pc = "remote" /\ Line.op = "rm"
  /\ LET removable == {c \in Named(Line.name) : c.state = "stopped"}
     IN /\ Advance(removable # {} /\ removable = Named(Line.name))
        /\ containers' = containers \ removable
  /\ UNCHANGED localImage

\* docker run -d --name: fails when the name is taken; pulls a missing image
RemoteRun ==
  /\ pc = "remote" /\ Line.op = "run"
  /\ IF Named(Line.name) # {}
     THEN /\ Advance(FALSE)
          /\ UNCHANGED <<containers, localImage>>
     ELSE \E ok \in BOOLEAN :
            /\ Advance(ok)
            /\ localImage' = IF ok /\ localImage = "none" THEN "new" ELSE localImage
            /\ containers' =
                 IF ok THEN containers \cup
                              {[name |-> Line.name, state |-> "running",
                                image |-> localImage', publish |-> Line.publish,
                                restart |-> Line.restart]}
                       ELSE containers

RemotePrune ==
  /\ pc = "remote" /\ Line.op = "prune"
  /\ \E ok \in BOOLEAN : Advance(ok)
  /\ UNCHANGED <<containers, localImage>>

\* ssh exits with the status of the last command the remote shell ran;
\* line 76 is reached only when .sync() resolved
SshExit ==
  /\ pc = "ssh_exit"
  /\ LET exit == status[Len(status)]
     IN /\ log' = Append(log, SshStep(exit))
        /\ result' = IF exit THEN Confirmation(imageRef, args.sshHost) ELSE Error
  /\ pc' = "done"
  /\ UNCHANGED <<args, prior, pipeVars, sshVars, hostVars>>

Next ==
  \/ Base
  \/ TestInstall
  \/ TestRun
  \/ BuildInstall
  \/ BuildRun
  \/ Package
  \/ Publish
  \/ Return
  \/ Compose
  \/ UtilSetup
  \/ KeyScan
  \/ SshConnect
  \/ RemoteLogin
  \/ RemotePull
  \/ RemoteStop
  \/ RemoteRm
  \/ RemoteRun
  \/ RemotePrune
  \/ SshExit

Spec == Init /\ [][Next]_vars

\* ================================================================ properties
InDeploy == args.entry \in {"deploy", "deployToServer"}

Steps == 1..Len(log)

Is(i, cmd, stage) == log[i].step.cmd = cmd /\ log[i].step.stage = stage

Logged(cmd) == \E i \in Steps : log[i].step.cmd = cmd

Passed(cmd, stage, i) == \E j \in 1..(i - 1) : Is(j, cmd, stage) /\ log[j].ok

Lines == 1..Len(status)

Ran(op) == \E k \in Lines : sent[k].op = op

Succeeded(op) == \E k \in Lines : sent[k].op = op /\ status[k]

HasUpper(s) == \E i \in 1..Len(s) : s[i] \in {"A", "B"}

\* C1: in a run of deploy, no build-stage command is executed unless the test
\* stage's install and test commands both exited zero before it, the publish is
\* not attempted unless the build stage's install and build commands both
\* exited zero before it, and a returned reference implies a successful publish.
C1_TestBuildPublishOrder ==
  InDeploy =>
    /\ \A i \in Steps :
         /\ log[i].step.stage = "build" =>
              /\ Passed("pnpm install", "test", i)
              /\ Passed("pnpm run test", "test", i)
              /\ \A j \in Steps : log[j].step.stage = "test" => j < i
         /\ log[i].step.cmd = "publish" =>
              /\ Passed("pnpm install --prod=false", "build", i)
              /\ Passed("pnpm run build", "build", i)
              /\ \A j \in Steps : log[j].step.stage = "build" => j < i
    /\ result.text \in {"ref", "Deployed"} =>
         \E i \in Steps : log[i].step.cmd = "publish" /\ log[i].ok

C1_Witness ==
  /\ args.entry = "deploy"
  /\ result.text = "ref"
  /\ pc = "done"

\* C2: once a command of the test stage has exited non-zero, deploy has ended
\* in an error and no build-stage, packaging or publish step is in the run.
C2_TestFailureShortCircuits ==
  (InDeploy /\ \E i \in Steps : log[i].step.stage = "test" /\ ~log[i].ok) =>
     /\ pc = "done"
     /\ result = Error
     /\ \A j \in Steps : log[j].step.stage \notin {"build", "package", "publish", "remote"}

C2_Witness ==
  /\ args.entry = "deploy"
  /\ pc = "done"
  /\ \E i \in Steps : Is(i, "pnpm run test", "test") /\ ~log[i].ok

\* C3: in deployToServer, once a step of the test, build, packaging or publish
\* stage has failed, that step is the last one of the run, the run has ended in
\* an error, the plaintext was never extracted, no script was composed or sent,
\* no remote-stage step exists, and no step occurs twice.
C3_StageFailureAbortsRemoteDeploy ==
  args.entry = "deployToServer" =>
    /\ \A i, j \in Steps : i # j => log[i].step # log[j].step
    /\ \A i \in Steps :
         (log[i].step.stage \in {"test", "build", "package", "publish"} /\ ~log[i].ok) =>
            /\ i = Len(log)
            /\ pc = "done"
            /\ result = Error
            /\ ~Logged("plaintext")
            /\ deployScript = <<>>
            /\ sent = <<>>
            /\ \A j \in Steps : log[j].step.stage # "remote"

C3_Witness ==
  /\ args.entry = "deployToServer"
  /\ pc = "done"
  /\ \E i \in Steps : log[i].step.cmd = "publish" /\ ~log[i].ok

\* C4 (as claimed): when the login, pull, run or prune line of the remote script
\* exits non-zero, no later line is executed and deployToServer does not return
\* the confirmation.
C4_RemoteFailurePropagates ==
  \A k \in Lines :
    (sent[k].op \in {"login", "pull", "run", "prune"} /\ ~status[k]) =>
       /\ Len(status) = k
       /\ result.text # "Deployed"

\* C5: once the utility container is set up, the host-key scan step exits zero
\* whatever the scan did, the ssh step is executed, and the finished run
\* returns the confirmation exactly when the ssh command exited zero.
C5_ScanNeverDecides ==
  (args.entry = "deployToServer" /\ pc = "done" /\ Logged("ssh-keyscan")) =>
    /\ \A i \in Steps : log[i].step.cmd = "ssh-keyscan" => log[i].ok
    /\ \E i \in Steps :
         /\ log[i].step.cmd = "ssh"
         /\ (result.text = "Deployed") <=> log[i].ok
         /\ (result = Error) <=> ~log[i].ok

C5_Witness ==
  /\ pc = "done"
  /\ result.text = "Deployed"
  /\ knownHosts = {}
  /\ \E i \in Steps : log[i].step.cmd = "ssh-keyscan" /\ ~log[i].step.scanned

\* C6 (as claimed): the script holding the plaintext password has been sent
\* only to a peer whose host key is in the known-hosts data.
C6_ScriptOnlyToVerifiedHost ==
  sent # <<>> => peerKey \in knownHosts

\* C7: the address deploy publishes to is registryAddr, "/", the username with
\* every upper-case letter replaced by its lower-case letter, and
\* "/my-nest-app:latest"; the registry authentication gets registryAddr and
\* the username unchanged.
CaseTable == ("A" :> "a") @@ ("B" :> "b") @@ ("a" :> "a")

C7_PublishedReference ==
  \A i \in Steps :
    log[i].step.cmd = "publish" =>
      LET a == log[i].step.address
          r == args.registryAddr
          u == args.username
      IN /\ Len(a) = Len(r) + 1 + Len(u) + 19
         /\ SubSeq(a, 1, Len(r)) = r
         /\ a[Len(r) + 1] = "/"
         /\ \A n \in 1..Len(u) : a[Len(r) + 1 + n] = CaseTable[u[n]]
         /\ SubSeq(a, Len(r) + Len(u) + 2, Len(a)) =
              <<"/", "m", "y", "-", "n", "e", "s", "t", "-", "a", "p", "p",
                ":", "l", "a", "t", "e", "s", "t">>
         /\ log[i].step.authUser = u
         /\ log[i].step.authAddr = r
         /\ (log[i].ok /\ args.entry = "deploy") => result.ref = a

C7_Witness ==
  /\ args.entry = "deploy"
  /\ args.username = <<"A", "B">>
  /\ args.registryAddr = <<"G">>
  /\ result.text = "ref"
  /\ result.ref = <<"G", "/", "a", "b">> \o AppTag

\* C8: with sshPort omitted, the port variable is 22 once computed, the host-key
\* scan and the ssh command both run with the port text "22", and the run ends
\* as the ssh exit status says, exactly as with sshPort = 22.
C8_DefaultPort ==
  (args.entry = "deployToServer" /\ args.sshPort \in {None, 22}) =>
    /\ Logged("plaintext") => port = 22
    /\ \A i \in Steps :
         log[i].step.cmd \in {"ssh-keyscan", "ssh"} => log[i].step.port = <<"2", "2">>
    /\ \A i \in Steps :
         log[i].step.cmd = "ssh" =>
           result = IF log[i].ok THEN [text |-> "Deployed", ref |-> imageRef,
                                       host |-> args.sshHost]
                    ELSE Error

C8_Witness ==
  /\ args.sshPort = None
  /\ result.text = "Deployed"
  /\ \E i \in Steps : log[i].step.cmd = "ssh-keyscan" /\ log[i].step.port = <<"2", "2">>
  /\ \E i \in Steps : log[i].step.cmd = "ssh" /\ log[i].step.port = <<"2", "2">>

C10_PulledIsPublished ==
  \A k \in Lines :
    sent[k].op \in {"pull", "run"} =>
      /\ sent[k].image = imageRef
      /\ \E i \in Steps : /\ log[i].step.cmd = "publish"
                          /\ log[i].ok
                          /\ log[i].step.address = sent[k].image

C10_Witness ==
  /\ HasUpper(args.username)
  /\ Ran("pull") /\ Ran("run")
  /\ Succeeded("run")

====
